---- MODULE Spec2Model ----
(***************************************************************************)
(* Sudan Digital Archive MCP server: the tool dispatch and request         *)
(* translation layer (src/src/server.rs, src/src/client.rs,                *)
(* src/src/model.rs).                                                      *)
(*                                                                         *)
(* One invocation is a record inv[i]: the tool handler of server.rs        *)
(* receives the typed arguments, normalises them into the arguments of the *)
(* client method, the client method of client.rs builds the HTTP request,  *)
(* sends it once, and translates the response into the outcome.            *)
(*                                                                         *)
(* Strings are TLA+ strings; format!/to_string are modelled by \o so that  *)
(* what a message or a query value contains is decided by its characters.  *)
(***************************************************************************)
EXTENDS Integers, Sequences, FiniteSets, TLC

VARIABLES cfg, inv

vars == <<cfg, inv>>

(***************************************************************************)
(* Bounds of the model.                                                    *)
(***************************************************************************)
\* longest metadata_subjects list drawn for ListAccessionsArgs
MaxSubjects == 2
\* most keys of a raw argument payload (a JSON object) drawn for a tool call
MaxKeys == 2

(***************************************************************************)
(* model.rs                                                                *)
(***************************************************************************)
\* fn default_pagination() -> i64 { -1 }
default_pagination == -1

\* enum MetadataLanguage { None, English, Arabic }, #[default] None
MetadataLanguage == {"None", "English", "Arabic"}

MetadataLanguage_default == "None"

\* i64 values drawn for page and per_page
PageVals == {-2, -1, 0, 2}

PerPageVals == {-2, -1, 0, 25}

\* i32 values drawn for subject ids and path ids
SubjectIds == {3, 5}

IdVals == {7, 42}

\* String values drawn for the free-text and date filters
TermVals == {"", "nile"}

UrlVals == {"", "bbc.com"}

DateFromVals == {"", "2020-01-01"}

DateToVals == {"", "2021-12-31"}

RECURSIVE SeqsUpTo(_, _)
SeqsUpTo(S, n) ==
    IF n = 0 THEN {<<>>}
    ELSE LET shorter == SeqsUpTo(S, n - 1)
         IN  shorter \cup {Append(s, x) : s \in shorter, x \in S}

\* the request body structs (UpdateAccessionRequest, CreateSubjectRequest,
\* DeleteSubjectRequest, ...): the language field and the text field
NoRequest == [lang |-> "None", text |-> ""]

\* the pagination fields with a plain #[serde(default)]: the default of i64
DefaultArgs_zero_pagination ==
    [page |-> 0,
     per_page |-> 0,
     lang |-> MetadataLanguage_default,
     metadata_subjects |-> <<>>,
     metadata_subjects_inclusive_filter |-> FALSE,
     query_term |-> "",
     url_filter |-> "",
     date_from |-> "",
     date_to |-> "",
     is_private |-> FALSE,
     is_public |-> FALSE,
     id |-> 0,
     request |-> NoRequest]

\* impl Default for ListAccessionsArgs / ListCollectionsArgs /
\* ListPrivateCollectionsArgs, and the serde defaults of the other structs;
\* one record type carries the fields of every argument struct
DefaultArgs ==
    [page |-> default_pagination,
     per_page |-> default_pagination,
     lang |-> MetadataLanguage_default,
     metadata_subjects |-> <<>>,
     metadata_subjects_inclusive_filter |-> FALSE,
     query_term |-> "",
     url_filter |-> "",
     date_from |-> "",
     date_to |-> "",
     is_private |-> FALSE,
     is_public |-> FALSE,
     id |-> 0,
     request |-> NoRequest]

(***************************************************************************)
(* i64::to_string / i32::to_string: the decimal digits, most significant   *)
(* first, with a leading '-' for negative values.                          *)
(***************************************************************************)
Digit(d) ==
    CASE d = 0 -> "0" [] d = 1 -> "1" [] d = 2 -> "2" [] d = 3 -> "3"
      [] d = 4 -> "4" [] d = 5 -> "5" [] d = 6 -> "6" [] d = 7 -> "7"
      [] d = 8 -> "8" [] d = 9 -> "9"

RECURSIVE NatToString(_)
NatToString(n) ==
    IF n < 10 THEN Digit(n)
    ELSE NatToString(n \div 10) \o Digit(n % 10)

to_string(n) ==
    IF n < 0 THEN "-" \o NatToString(0 - n) ELSE NatToString(n)

\* bool::to_string
bool_to_string(b) == IF b THEN "true" ELSE "false"

(***************************************************************************)
(* client.rs: the query builders.  A query is the Vec<(&'static str,       *)
(* String)> the method pushes to, in push order.                           *)
(***************************************************************************)
\* push_lang_optional sending the unspecified variant as "none"
push_lang_always(query, lang) ==
    CASE lang = "English" -> Append(query, <<"lang", "english">>)
      [] lang = "Arabic" -> Append(query, <<"lang", "arabic">>)
      [] OTHER -> Append(query, <<"lang", "none">>)

\* match lang { English => push(("lang","english")), Arabic =>
\* push(("lang","arabic")), None => {} }
push_lang_optional(query, lang) ==
    CASE lang = "English" -> Append(query, <<"lang", "english">>)
      [] lang = "Arabic" -> Append(query, <<"lang", "arabic">>)
      [] OTHER -> query

\* push_pagination testing for a positive value instead of the sentinel
push_pagination_positive(query, page, per_page) ==
    LET q1 == IF page > 0
              THEN Append(query, <<"page", to_string(page)>>) ELSE query
    IN  IF per_page > 0
        THEN Append(q1, <<"per_page", to_string(per_page)>>) ELSE q1

\* push_pagination taking every negative value for the sentinel
push_pagination_nonnegative(query, page, per_page) ==
    LET q1 == IF page >= 0
              THEN Append(query, <<"page", to_string(page)>>) ELSE query
    IN  IF per_page >= 0
        THEN Append(q1, <<"per_page", to_string(per_page)>>) ELSE q1

\* if args.page != -1 { push(page) }; if args.per_page != -1 { push(per_page) }
push_pagination(query, page, per_page) ==
    LET q1 == IF page # -1
              THEN Append(query, <<"page", to_string(page)>>) ELSE query
    IN  IF per_page # -1
        THEN Append(q1, <<"per_page", to_string(per_page)>>) ELSE q1

\* the subjects collected into a set first: an id met again is not pushed
push_subjects_distinct(query, subjects) ==
    LET first == {k \in 1..Len(subjects) :
                      \A j \in 1..(k - 1) : subjects[j] # subjects[k]}
        keep == SelectSeq([k \in 1..Len(subjects) |-> k],
                          LAMBDA k : k \in first)
    IN  query \o [n \in 1..Len(keep) |->
                     <<"metadata_subjects", to_string(subjects[keep[n]])>>]

\* for s in args.metadata_subjects { push(("metadata_subjects", s.to_string())) }
push_subjects(query, subjects) ==
    query \o [k \in 1..Len(subjects) |->
                 <<"metadata_subjects", to_string(subjects[k])>>]

push_if(query, cond, name, value) ==
    IF cond THEN Append(query, <<name, value>>) ELSE query

\* build_accession_query pushing lang before the pagination
build_accession_query_lang_first(args) ==
    LET q1 == push_lang_optional(<<>>, args.lang)
        q2 == push_pagination(q1, args.page, args.per_page)
        q3 == IF args.metadata_subjects # <<>>
              THEN push_subjects(q2, args.metadata_subjects) ELSE q2
        q4 == push_if(q3, args.metadata_subjects_inclusive_filter,
                      "metadata_subjects_inclusive_filter", "true")
        q5 == push_if(q4, args.query_term # "", "query_term", args.query_term)
        q6 == push_if(q5, args.url_filter # "", "url_filter", args.url_filter)
        q7 == push_if(q6, args.date_from # "", "date_from", args.date_from)
        q8 == push_if(q7, args.date_to # "", "date_to", args.date_to)
    IN  push_if(q8, args.is_private, "is_private", "true")

\* SdaClient::build_accession_query
build_accession_query(args) ==
    LET q1 == push_pagination(<<>>, args.page, args.per_page)
        q2 == push_lang_optional(q1, args.lang)
        q3 == IF args.metadata_subjects # <<>>
              THEN push_subjects(q2, args.metadata_subjects) ELSE q2
        q4 == push_if(q3, args.metadata_subjects_inclusive_filter,
                      "metadata_subjects_inclusive_filter", "true")
        q5 == push_if(q4, args.query_term # "", "query_term", args.query_term)
        q6 == push_if(q5, args.url_filter # "", "url_filter", args.url_filter)
        q7 == push_if(q6, args.date_from # "", "date_from", args.date_from)
        q8 == push_if(q7, args.date_to # "", "date_to", args.date_to)
    IN  push_if(q8, args.is_private, "is_private", "true")

\* Option<i64>
None == [some |-> FALSE, v |-> 0]

Some(n) == [some |-> TRUE, v |-> n]

\* list_subjects omitting lang for None, as the optional operations do
list_subjects_query_no_fallback(lang, page, per_page) ==
    LET q1 == CASE lang = "English" -> <<<<"lang", "english">>>>
                [] lang = "Arabic" -> <<<<"lang", "arabic">>>>
                [] OTHER -> <<>>
        q2 == IF page.some
              THEN Append(q1, <<"page", to_string(page.v)>>) ELSE q1
    IN  IF per_page.some
        THEN Append(q2, <<"per_page", to_string(per_page.v)>>) ELSE q2

\* list_subjects pushing per_page before page
list_subjects_query_swapped(lang, page, per_page) ==
    LET q1 == CASE lang = "English" -> <<<<"lang", "english">>>>
                [] lang = "Arabic" -> <<<<"lang", "arabic">>>>
                [] OTHER -> <<<<"lang", "english">>>>
        q2 == IF per_page.some
              THEN Append(q1, <<"per_page", to_string(per_page.v)>>) ELSE q1
    IN  IF page.some
        THEN Append(q2, <<"page", to_string(page.v)>>) ELSE q2

\* SdaClient::list_subjects: the query it builds
list_subjects_query(lang, page, per_page) ==
    LET q1 == CASE lang = "English" -> <<<<"lang", "english">>>>
                [] lang = "Arabic" -> <<<<"lang", "arabic">>>>
                [] OTHER -> <<<<"lang", "english">>>>
        q2 == IF page.some
              THEN Append(q1, <<"page", to_string(page.v)>>) ELSE q1
    IN  IF per_page.some
        THEN Append(q2, <<"per_page", to_string(per_page.v)>>) ELSE q2

\* SdaClient::get_subject: the query it builds
get_subject_query(lang) == push_lang_optional(<<>>, lang)

\* SdaClient::list_collections: the query it builds
list_collections_query(args) ==
    push_lang_optional(push_pagination(<<>>, args.page, args.per_page),
                       args.lang)

\* list_private_collections pushing is_public the way the accession
\* booleans are pushed, only when it is true
list_private_collections_query_when_true(args) ==
    push_if(push_lang_optional(
                push_pagination(<<>>, args.page, args.per_page), args.lang),
            args.is_public, "is_public", "true")

\* SdaClient::list_private_collections: the query it builds
list_private_collections_query(args) ==
    Append(push_lang_optional(
               push_pagination(<<>>, args.page, args.per_page), args.lang),
           <<"is_public", bool_to_string(args.is_public)>>)

\* SdaClient::get_collection: the query it builds
get_collection_query(lang) == push_lang_optional(<<>>, lang)

(***************************************************************************)
(* The operations: the sixteen methods of SdaClient.  The ten that         *)
(* server.rs registers as tools are called through their handler; the      *)
(* other six are called directly with typed arguments.                     *)
(***************************************************************************)
Tools ==
    {"list_accessions", "list_private_accessions", "get_accession",
     "get_private_accession", "update_accession", "create_accession_crawl",
     "list_subjects", "create_subject", "delete_subject", "update_subject"}

ClientOnly ==
    {"get_subject", "list_collections", "list_private_collections",
     "get_collection", "create_collection", "update_collection"}

Ops == Tools \cup ClientOnly

\* the methods that take an id and put it in the path
IdOps ==
    {"get_accession", "get_private_accession", "update_accession",
     "delete_subject", "update_subject", "get_subject", "get_collection",
     "update_collection"}

\* the methods that send a JSON body
BodyOps ==
    {"update_accession", "create_accession_crawl", "create_subject",
     "delete_subject", "update_subject", "create_collection",
     "update_collection"}

\* the methods that return response.text() unchanged
TextOps == {"create_accession_crawl", "create_subject", "create_collection"}

\* the methods that call .query(&query)
QueryOps ==
    {"list_accessions", "list_private_accessions", "list_subjects",
     "get_subject", "list_collections", "list_private_collections",
     "get_collection"}

\* self.client.get / post / put / delete
Method(op) ==
    CASE op \in {"create_accession_crawl", "create_subject",
                 "create_collection"} -> "POST"
      [] op \in {"update_accession", "update_subject",
                 "update_collection"} -> "PUT"
      [] op = "delete_subject" -> "DELETE"
      [] OTHER -> "GET"

\* let url = format!("{}/api/v1/...", self.base_url[, id])
Url(base_url, op, id) ==
    CASE op = "create_accession_crawl" -> base_url \o "/api/v1/accessions/crawl"
      [] op = "list_accessions" -> base_url \o "/api/v1/accessions"
      [] op = "list_private_accessions" ->
            base_url \o "/api/v1/accessions/private"
      [] op \in {"get_accession", "update_accession"} ->
            base_url \o "/api/v1/accessions/" \o to_string(id)
      [] op = "get_private_accession" ->
            base_url \o "/api/v1/accessions/private/" \o to_string(id)
      [] op \in {"list_subjects", "create_subject"} ->
            base_url \o "/api/v1/metadata-subjects"
      [] op \in {"delete_subject", "update_subject", "get_subject"} ->
            base_url \o "/api/v1/metadata-subjects/" \o to_string(id)
      [] op \in {"list_collections", "create_collection"} ->
            base_url \o "/api/v1/collections"
      [] op = "list_private_collections" ->
            base_url \o "/api/v1/collections/private"
      [] op \in {"get_collection", "update_collection"} ->
            base_url \o "/api/v1/collections/" \o to_string(id)

\* the credential sent as a bearer token instead
auth_header_bearer(c) == <<"Authorization", "Bearer " \o c.api_key>>

\* fn auth_header(&self) -> (&str, &str) { ("x-api-key", &self.api_key) }
auth_header(c) == <<"x-api-key", c.api_key>>

\* #[serde(rename_all = "snake_case")] on MetadataLanguage
lang_json(lang) ==
    CASE lang = "English" -> "english"
      [] lang = "Arabic" -> "arabic"
      [] OTHER -> "none"

\* .json(&request): the body struct serialised in field declaration order
\* (the language field and the text field of each struct)
json_body(op, request) ==
    CASE op \in {"update_accession", "create_accession_crawl"} ->
            "{\"metadata_language\":\"" \o lang_json(request.lang)
                \o "\",\"metadata_title\":\"" \o request.text \o "\"}"
      [] op \in {"create_subject", "update_subject"} ->
            "{\"lang\":\"" \o lang_json(request.lang)
                \o "\",\"metadata_subject\":\"" \o request.text \o "\"}"
      [] op = "delete_subject" ->
            "{\"lang\":\"" \o lang_json(request.lang) \o "\"}"
      [] op \in {"create_collection", "update_collection"} ->
            "{\"lang\":\"" \o lang_json(request.lang)
                \o "\",\"title\":\"" \o request.text \o "\"}"
      [] OTHER -> ""

(***************************************************************************)
(* server.rs: what each handler passes to the client method.               *)
(***************************************************************************)
\* the handler turning the page number into a zero-based one on the way
sentinel_to_option_zero_based(n) == IF n # -1 THEN Some(n - 1) ELSE None

\* if args.page != -1 { Some(args.page) } else { None }
sentinel_to_option(n) == IF n # -1 THEN Some(n) ELSE None

\* the arguments of the client call: list_subjects turns the pagination
\* sentinel into Option, delete_subject wraps args.lang in a
\* DeleteSubjectRequest, every other handler passes its arguments through
ClientCallArgs(op, args) ==
    [args |-> IF op = "delete_subject"
              THEN [args EXCEPT !.request = [lang |-> args.lang, text |-> ""]]
              ELSE args,
     page |-> IF op = "list_subjects"
              THEN sentinel_to_option(args.page) ELSE None,
     per_page |-> IF op = "list_subjects"
                  THEN sentinel_to_option(args.per_page) ELSE None]

NoCall == [args |-> DefaultArgs, page |-> None, per_page |-> None]

(***************************************************************************)
(* client.rs: the request each method builds before .send().               *)
(***************************************************************************)
QueryOf(op, call) ==
    CASE op \in {"list_accessions", "list_private_accessions"} ->
            build_accession_query(call.args)
      [] op = "list_subjects" ->
            list_subjects_query(call.args.lang, call.page, call.per_page)
      [] op = "get_subject" -> get_subject_query(call.args.lang)
      [] op = "list_collections" -> list_collections_query(call.args)
      [] op = "list_private_collections" ->
            list_private_collections_query(call.args)
      [] op = "get_collection" -> get_collection_query(call.args.lang)
      [] OTHER -> <<>>

\* BuildRequest pushing to a query vector kept in the client and shared by
\* the invocations, instead of a fresh one
BuildRequest_shared_query(c, op, call) ==
    LET left == {i \in DOMAIN inv : inv[i].request.query # <<>>}
        kept == IF left = {} THEN <<>>
                ELSE inv[CHOOSE i \in left : TRUE].request.query
    IN  [method |-> Method(op),
         url |-> Url(c.base_url, op, call.args.id),
         header |-> auth_header(c),
         query |-> kept \o QueryOf(op, call),
         body |-> IF op \in BodyOps THEN json_body(op, call.args.request)
                  ELSE ""]

BuildRequest(c, op, call) ==
    [method |-> Method(op),
     url |-> Url(c.base_url, op, call.args.id),
     header |-> auth_header(c),
     query |-> QueryOf(op, call),
     body |-> IF op \in BodyOps THEN json_body(op, call.args.request) ELSE ""]

NoRequestBuilt ==
    [method |-> "", url |-> "", header |-> <<"", "">>, query |-> <<>>,
     body |-> ""]

(***************************************************************************)
(* The context strings of the anyhow error chain.                          *)
(***************************************************************************)
OpPhrase(op) ==
    CASE op = "list_accessions" -> "list accessions"
      [] op = "list_private_accessions" -> "list private accessions"
      [] op = "get_accession" -> "get accession"
      [] op = "get_private_accession" -> "get private accession"
      [] op = "update_accession" -> "update accession"
      [] op = "create_accession_crawl" -> "create accession crawl"
      [] op = "list_subjects" -> "list subjects"
      [] op = "create_subject" -> "create subject"
      [] op = "delete_subject" -> "delete subject"
      [] op = "update_subject" -> "update subject"
      [] op = "get_subject" -> "get subject"
      [] op = "list_collections" -> "list collections"
      [] op = "list_private_collections" -> "list private collections"
      [] op = "get_collection" -> "get collection"
      [] op = "create_collection" -> "create collection"
      [] op = "update_collection" -> "update collection"

\* the three client methods whose send and status contexts name the id
IdContextOps == {"get_subject", "get_collection", "update_collection"}

\* .context("Failed to send ... request") on send().await
SendContext(op, id) ==
    "Failed to send " \o OpPhrase(op) \o " request"
        \o (IF op \in IdContextOps THEN " for ID " \o to_string(id) ELSE "")

\* the context argument of Self::handle_response
StatusContext(op, id) ==
    "Server returned error for " \o OpPhrase(op)
        \o (IF op \in IdContextOps THEN " " \o to_string(id) ELSE "")

\* the parse context left out: the decoder's error alone
ParseContext_missing(op) == "error"

\* .context("Failed to parse ... response") on json().await / text().await
ParseContext(op) ==
    "Failed to parse " \o OpPhrase(op) \o " response"
        \o (IF op \in TextOps THEN " text" ELSE "")

\* the handler context as a fixed string, the id left out
HandlerContext_no_id(op, id) == "Failed to " \o OpPhrase(op)

\* .context("Failed to ...") in the handlers of server.rs
HandlerContext(op, id) ==
    "Failed to " \o OpPhrase(op)
        \o (IF op \in IdOps THEN " with ID " \o to_string(id) ELSE "")

\* format!("{:#}", e): the chain's layers, outermost first, joined by ": "
RECURSIVE FormatAlt(_)
FormatAlt(chain) ==
    IF Len(chain) = 0 THEN ""
    ELSE IF Len(chain) = 1 THEN chain[1]
    ELSE chain[1] \o ": " \o FormatAlt(Tail(chain))

(***************************************************************************)
(* The responses of the archive service.                                   *)
(***************************************************************************)
Statuses == {200, 299, 300, 404, 500}

\* http::StatusCode::canonical_reason
canonical_reason(status) ==
    CASE status = 200 -> "OK"
      [] status = 300 -> "Multiple Choices"
      [] status = 404 -> "Not Found"
      [] status = 500 -> "Internal Server Error"
      [] OTHER -> "<unknown status code>"

\* Display for StatusCode: the number and the canonical reason
status_display(status) ==
    to_string(status) \o " " \o canonical_reason(status)

\* StatusCode::is_success
is_success(status) == 200 <= status /\ status <= 299

ListBody == "{\"items\":[],\"num_pages\":1,\"page\":0,\"per_page\":10}"

SubjectBody == "{\"id\":7,\"subject\":\"history\"}"

CollectionBody == "{\"id\":7,\"title\":\"maps\",\"is_public\":true}"

AccessionBody ==
    "{\"accession\":{\"id\":7,\"is_private\":false,\"crawl_status\":\"Complete\","
    \o "\"crawl_timestamp\":\"t\",\"seed_url\":\"u\",\"dublin_metadata_date\":\"d\","
    \o "\"dublin_metadata_format\":\"wacz\",\"has_english_metadata\":true,"
    \o "\"has_arabic_metadata\":false},\"wacz_url\":\"w\"}"

WrongTypeBody == "{\"items\":7}"

Bodies ==
    {"", "Not found", "{}", "7", ListBody, SubjectBody, CollectionBody,
     AccessionBody, WrongTypeBody}

\* serde_json over the sample bodies: what the text is as JSON, the keys
\* of the object, the first key whose value has another type than every
\* result struct expects, and the column serde_json reports
JsonOf(body) ==
    CASE body = "" -> [kind |-> "eof", keys |-> <<>>, bad |-> "", col |-> 0]
      [] body = "Not found" ->
            [kind |-> "invalid", keys |-> <<>>, bad |-> "", col |-> 1]
      [] body = "7" ->
            [kind |-> "integer", keys |-> <<>>, bad |-> "", col |-> 1]
      [] body = "{}" ->
            [kind |-> "object", keys |-> <<>>, bad |-> "", col |-> 2]
      [] body = ListBody ->
            [kind |-> "object",
             keys |-> <<"items", "num_pages", "page", "per_page">>,
             bad |-> "", col |-> Len(body)]
      [] body = SubjectBody ->
            [kind |-> "object", keys |-> <<"id", "subject">>, bad |-> "",
             col |-> Len(body)]
      [] body = CollectionBody ->
            [kind |-> "object", keys |-> <<"id", "title", "is_public">>,
             bad |-> "", col |-> Len(body)]
      [] body = AccessionBody ->
            [kind |-> "object", keys |-> <<"accession", "wacz_url">>,
             bad |-> "", col |-> Len(body)]
      [] body = WrongTypeBody ->
            [kind |-> "object", keys |-> <<"items">>, bad |-> "items",
             col |-> 10]

\* the result struct of each method that calls response.json()
ResultStruct(op) ==
    CASE op \in {"list_accessions", "list_private_accessions"} ->
            "ListAccessionsResponse"
      [] op \in {"get_accession", "get_private_accession",
                 "update_accession"} -> "GetOneAccessionResponse"
      [] op = "list_subjects" -> "ListSubjectsResponse"
      [] op \in {"update_subject", "get_subject"} ->
            "DublinMetadataSubjectResponse"
      [] op \in {"list_collections", "list_private_collections"} ->
            "ListCollectionsResponse"
      [] op \in {"get_collection", "update_collection"} ->
            "CollectionResponse"
      [] OTHER -> ""

\* the fields of the result structs that are not Option, in declaration order
RequiredFields(struct) ==
    CASE struct \in {"ListAccessionsResponse", "ListSubjectsResponse",
                     "ListCollectionsResponse"} ->
            <<"items", "num_pages", "page", "per_page">>
      [] struct = "GetOneAccessionResponse" -> <<"accession", "wacz_url">>
      [] struct = "DublinMetadataSubjectResponse" -> <<"id", "subject">>
      [] struct = "CollectionResponse" -> <<"id", "title", "is_public">>
      [] OTHER -> <<>>

Range(seq) == {seq[k] : k \in 1..Len(seq)}

FirstMissing(struct, json) ==
    LET req == RequiredFields(struct)
        k == CHOOSE k \in 1..Len(req) :
                 /\ req[k] \notin Range(json.keys)
                 /\ \A j \in 1..(k - 1) : req[j] \in Range(json.keys)
    IN  req[k]

AtColumn(json) == " at line 1 column " \o to_string(json.col)

\* response.json::<T>() into structs whose fields all have a serde default:
\* any JSON object is accepted
json_lenient(struct, body) ==
    LET j == JsonOf(body)
    IN  IF j.kind = "object" /\ j.bad = ""
        THEN [ok |-> TRUE, err |-> <<>>]
        ELSE [ok |-> FALSE,
              err |-> <<"error decoding response body",
                        "expected value" \o AtColumn(j)>>]

\* response.json::<T>(): Ok, or the reqwest decode error and the serde_json
\* error it wraps (serde's backquotes are written as ' here)
json(struct, body) ==
    LET j == JsonOf(body)
    IN  CASE j.kind = "eof" ->
                [ok |-> FALSE,
                 err |-> <<"error decoding response body",
                           "EOF while parsing a value" \o AtColumn(j)>>]
          [] j.kind = "invalid" ->
                [ok |-> FALSE,
                 err |-> <<"error decoding response body",
                           "expected value" \o AtColumn(j)>>]
          [] j.kind = "integer" ->
                [ok |-> FALSE,
                 err |-> <<"error decoding response body",
                           "invalid type: integer '" \o body
                               \o "', expected struct " \o struct
                               \o AtColumn(j)>>]
          [] j.bad \in Range(RequiredFields(struct)) ->
                [ok |-> FALSE,
                 err |-> <<"error decoding response body",
                           "invalid type: integer '7', expected a sequence"
                               \o AtColumn(j)>>]
          [] ~(Range(RequiredFields(struct)) \subseteq Range(j.keys)) ->
                [ok |-> FALSE,
                 err |-> <<"error decoding response body",
                           "missing field '" \o FirstMissing(struct, j)
                               \o "'" \o AtColumn(j)>>]
          [] OTHER -> [ok |-> TRUE, err |-> <<>>]

\* serde_json::to_string_pretty of the value the sample body parses to
\* (an Option field the body lacks is printed as null)
to_string_pretty(struct, body) ==
    CASE body = ListBody ->
            "{\n  \"items\": [],\n  \"num_pages\": 1,\n  \"page\": 0,\n"
            \o "  \"per_page\": 10\n}"
      [] body = SubjectBody -> "{\n  \"id\": 7,\n  \"subject\": \"history\"\n}"
      [] body = CollectionBody ->
            "{\n  \"id\": 7,\n  \"title\": \"maps\",\n  \"is_public\": true,\n"
            \o "  \"description\": null\n}"
      [] body = AccessionBody ->
            "{\n  \"accession\": {\n    \"id\": 7,\n    \"is_private\": false,\n"
            \o "    \"crawl_status\": \"Complete\",\n"
            \o "    \"crawl_timestamp\": \"t\",\n    \"seed_url\": \"u\",\n"
            \o "    \"dublin_metadata_date\": \"d\",\n"
            \o "    \"dublin_metadata_format\": \"wacz\",\n"
            \o "    \"has_english_metadata\": true,\n"
            \o "    \"has_arabic_metadata\": false,\n"
            \o "    \"description_ar\": null,\n    \"description_en\": null,\n"
            \o "    \"subjects_ar\": null,\n    \"subjects_ar_ids\": null,\n"
            \o "    \"subjects_en\": null,\n    \"subjects_en_ids\": null,\n"
            \o "    \"title_ar\": null,\n    \"title_en\": null\n  },\n"
            \o "  \"wacz_url\": \"w\"\n}"
      [] OTHER -> "{}"

(***************************************************************************)
(* client.rs: the translation of the response, and server.rs: the outcome  *)
(* the handler returns.                                                    *)
(***************************************************************************)
\* a response: the status, the body text, and whether reading the body
\* from the connection succeeds
Responses ==
    [status : Statuses, body : Bodies, readable : {TRUE}]
        \cup [status : Statuses, body : {""}, readable : {FALSE}]

NoResponse == [status |-> 0, body |-> "", readable |-> TRUE]

\* handle_response as error_for_status() would do it: the body is dropped
handle_response_status_only(response, context) ==
    IF ~is_success(response.status)
    THEN [ok |-> FALSE,
          err |-> <<context \o ": HTTP " \o status_display(response.status)>>]
    ELSE [ok |-> TRUE, err |-> <<>>]

\* SdaClient::handle_response: Ok (the empty chain) or Err(anyhow!(msg))
handle_response(response, context) ==
    IF ~is_success(response.status)
    THEN LET body == IF response.readable THEN response.body
                     ELSE "<failed to read error body>"
             msg == IF body = ""
                    THEN context \o ": HTTP "
                             \o status_display(response.status)
                    ELSE context \o ": HTTP "
                             \o status_display(response.status)
                             \o " - " \o body
         IN  [ok |-> FALSE, err |-> <<msg>>]
    ELSE [ok |-> TRUE, err |-> <<>>]

BodyReadError ==
    <<"error decoding response body", "error reading a body from connection">>

\* delete_subject reading the body of its response as text before Ok(())
ClientResult_delete_reads_body(op, id, response) ==
    LET h == handle_response(response, StatusContext(op, id))
    IN  IF ~h.ok THEN [ok |-> FALSE, stage |-> "status", err |-> h.err,
                       value |-> ""]
        ELSE IF ~response.readable
        THEN [ok |-> FALSE, stage |-> "parse",
              err |-> <<ParseContext(op)>> \o BodyReadError, value |-> ""]
        ELSE IF op = "delete_subject"
        THEN [ok |-> TRUE, stage |-> "", err |-> <<>>, value |-> ""]
        ELSE IF op \in TextOps
        THEN [ok |-> TRUE, stage |-> "", err |-> <<>>,
              value |-> response.body]
        ELSE LET r == json(ResultStruct(op), response.body)
             IN  IF r.ok
                 THEN [ok |-> TRUE, stage |-> "", err |-> <<>>,
                       value |-> response.body]
                 ELSE [ok |-> FALSE, stage |-> "parse",
                       err |-> <<ParseContext(op)>> \o r.err, value |-> ""]

\* the Result of the client method once the response has arrived:
\* handle_response(...)?, then Ok(()), response.text() or response.json(),
\* each with its .context(...)
ClientResult(op, id, response) ==
    LET h == handle_response(response, StatusContext(op, id))
    IN  IF ~h.ok THEN [ok |-> FALSE, stage |-> "status", err |-> h.err,
                       value |-> ""]
        ELSE IF op = "delete_subject"
        THEN [ok |-> TRUE, stage |-> "", err |-> <<>>, value |-> ""]
        ELSE IF ~response.readable
        THEN [ok |-> FALSE, stage |-> "parse",
              err |-> <<ParseContext(op)>> \o BodyReadError, value |-> ""]
        ELSE IF op \in TextOps
        THEN [ok |-> TRUE, stage |-> "", err |-> <<>>,
              value |-> response.body]
        ELSE LET r == json(ResultStruct(op), response.body)
             IN  IF r.ok
                 THEN [ok |-> TRUE, stage |-> "", err |-> <<>>,
                       value |-> response.body]
                 ELSE [ok |-> FALSE, stage |-> "parse",
                       err |-> <<ParseContext(op)>> \o r.err, value |-> ""]

\* the Result of the client method when send().await fails
SendFailure(op, id, url) ==
    [ok |-> FALSE, stage |-> "send",
     err |-> <<SendContext(op, id),
               "error sending request for url (" \o url \o ")">>,
     value |-> ""]

NoOutcome ==
    [kind |-> "none", code |-> "", stage |-> "", chain |-> <<>>, text |-> ""]

\* the handler mapping its errors with McpError::invalid_params
HandlerOutcome_invalid_params(op, id, result) ==
    IF ~result.ok
    THEN LET chain == <<"Failed to " \o OpPhrase(op)
                            \o (IF op \in IdOps
                                THEN " with ID " \o to_string(id) ELSE "")>>
                          \o result.err
         IN  [kind |-> "failure", code |-> "invalid_params",
              stage |-> result.stage, chain |-> chain,
              text |-> FormatAlt(chain)]
    ELSE [kind |-> "success", code |-> "", stage |-> "", chain |-> <<>>,
          text |-> IF op = "delete_subject"
                   THEN "Subject deleted successfully"
                   ELSE IF op \in TextOps THEN result.value
                   ELSE to_string_pretty(ResultStruct(op), result.value)]

\* the creation handlers answering serde_json::to_string_pretty(&response)
\* like the others: the text as a JSON string, in quotes
HandlerOutcome_pretty_text(op, id, result) ==
    IF ~result.ok
    THEN LET chain == <<"Failed to " \o OpPhrase(op)
                            \o (IF op \in IdOps
                                THEN " with ID " \o to_string(id) ELSE "")>>
                          \o result.err
         IN  [kind |-> "failure", code |-> "internal_error",
              stage |-> result.stage, chain |-> chain,
              text |-> FormatAlt(chain)]
    ELSE [kind |-> "success", code |-> "", stage |-> "", chain |-> <<>>,
          text |-> IF op = "delete_subject"
                   THEN "Subject deleted successfully"
                   ELSE IF op \in TextOps THEN "\"" \o result.value \o "\""
                   ELSE to_string_pretty(ResultStruct(op), result.value)]

\* the handler's return value: on Err, .context(...) and
\* McpError::internal_error(format!("{:#}", e), None); on Ok,
\* CallToolResult::success with the pretty-printed value, the text, or the
\* fixed confirmation of delete_subject
HandlerOutcome(op, id, result) ==
    IF ~result.ok
    THEN LET chain == <<HandlerContext(op, id)>> \o result.err
         IN  [kind |-> "failure", code |-> "internal_error",
              stage |-> result.stage, chain |-> chain,
              text |-> FormatAlt(chain)]
    ELSE [kind |-> "success", code |-> "", stage |-> "", chain |-> <<>>,
          text |-> IF op = "delete_subject"
                   THEN "Subject deleted successfully"
                   ELSE IF op \in TextOps THEN result.value
                   ELSE to_string_pretty(ResultStruct(op), result.value)]

\* a client method called directly: its Result, unwrapped by no handler
DirectOutcome(op, result) ==
    IF ~result.ok
    THEN [kind |-> "failure", code |-> "anyhow", stage |-> result.stage,
          chain |-> result.err, text |-> FormatAlt(result.err)]
    ELSE [kind |-> "success", code |-> "", stage |-> "", chain |-> <<>>,
          text |-> result.value]

Outcome(entry, op, id, result) ==
    IF entry = "tool" THEN HandlerOutcome(op, id, result)
    ELSE DirectOutcome(op, result)

(***************************************************************************)
(* model.rs: the argument structs, as serde deserialises the raw payload   *)
(* (a JSON object) of a tool call into them.                               *)
(***************************************************************************)
\* a JSON value: its type and, in the field of that type, its content
JInt(n) == [t |-> "int", i |-> n, s |-> "", b |-> FALSE, l |-> <<>>,
            o |-> NoRequest]

JStr(s) == [t |-> "str", i |-> 0, s |-> s, b |-> FALSE, l |-> <<>>,
            o |-> NoRequest]

JBool(b) == [t |-> "bool", i |-> 0, s |-> "", b |-> b, l |-> <<>>,
             o |-> NoRequest]

JList(l) == [t |-> "list", i |-> 0, s |-> "", b |-> FALSE, l |-> l,
             o |-> NoRequest]

\* a JSON object holding a request struct; lang "" stands for an object
\* without the language key
JObj(lang, text) ==
    [t |-> "obj", i |-> 0, s |-> "", b |-> FALSE, l |-> <<>>,
     o |-> [lang |-> lang, text |-> text]]

\* the fields of the argument struct of each tool: the field, the keys
\* serde accepts for it (rename_all = "camelCase" and alias on the list
\* structs), its type, and whether it has no #[serde(default)]
FieldSpec(field, keys, type, required) ==
    [field |-> field, keys |-> keys, type |-> type, required |-> required]

ArgFields(op) ==
    CASE op \in {"list_accessions", "list_private_accessions"} ->
            <<FieldSpec("page", {"page"}, "int", FALSE),
              FieldSpec("per_page", {"perPage", "per_page"}, "int", FALSE),
              FieldSpec("lang", {"lang"}, "lang", FALSE),
              FieldSpec("metadata_subjects", {"metadataSubjects"}, "list",
                        FALSE),
              FieldSpec("metadata_subjects_inclusive_filter",
                        {"metadataSubjectsInclusiveFilter"}, "bool", FALSE),
              FieldSpec("query_term", {"queryTerm"}, "str", FALSE),
              FieldSpec("url_filter", {"urlFilter"}, "str", FALSE),
              FieldSpec("date_from", {"dateFrom"}, "str", FALSE),
              FieldSpec("date_to", {"dateTo"}, "str", FALSE),
              FieldSpec("is_private", {"isPrivate"}, "bool", FALSE)>>
      [] op = "list_subjects" ->
            <<FieldSpec("page", {"page"}, "int", FALSE),
              FieldSpec("per_page", {"perPage", "per_page"}, "int", FALSE),
              FieldSpec("lang", {"lang"}, "lang", TRUE)>>
      [] op \in {"get_accession", "get_private_accession"} ->
            <<FieldSpec("id", {"id"}, "int", TRUE)>>
      [] op \in {"update_accession", "update_subject"} ->
            <<FieldSpec("id", {"id"}, "int", TRUE),
              FieldSpec("request", {"request"}, "obj", TRUE)>>
      [] op \in {"create_accession_crawl", "create_subject"} ->
            <<FieldSpec("request", {"request"}, "obj", TRUE)>>
      [] op = "delete_subject" ->
            <<FieldSpec("id", {"id"}, "int", TRUE),
              FieldSpec("lang", {"lang"}, "lang", TRUE)>>
      [] OTHER -> <<>>

\* #[serde(rename_all = "snake_case")] on MetadataLanguage, read back
lang_of_json(s) ==
    CASE s = "english" -> "English"
      [] s = "arabic" -> "Arabic"
      [] OTHER -> "None"

LangNames == {"none", "english", "arabic"}

TypeFits(type, val) ==
    CASE type = "lang" -> val.t = "str" /\ val.s \in LangNames
      [] type = "obj" -> val.t = "obj" /\ val.o.lang \in LangNames
      [] OTHER -> val.t = type

SetField(args, field, val) ==
    CASE field = "page" -> [args EXCEPT !.page = val.i]
      [] field = "per_page" -> [args EXCEPT !.per_page = val.i]
      [] field = "lang" -> [args EXCEPT !.lang = lang_of_json(val.s)]
      [] field = "metadata_subjects" ->
            [args EXCEPT !.metadata_subjects = val.l]
      [] field = "metadata_subjects_inclusive_filter" ->
            [args EXCEPT !.metadata_subjects_inclusive_filter = val.b]
      [] field = "query_term" -> [args EXCEPT !.query_term = val.s]
      [] field = "url_filter" -> [args EXCEPT !.url_filter = val.s]
      [] field = "date_from" -> [args EXCEPT !.date_from = val.s]
      [] field = "date_to" -> [args EXCEPT !.date_to = val.s]
      [] field = "is_private" -> [args EXCEPT !.is_private = val.b]
      [] field = "id" -> [args EXCEPT !.id = val.i]
      [] field = "request" ->
            [args EXCEPT !.request = [lang |-> lang_of_json(val.o.lang),
                                      text |-> val.o.text]]

\* the visitor serde derives: each entry of the payload in turn; a key of
\* no field is ignored, a field met twice and a value of the wrong type
\* are errors
RECURSIVE Visit(_, _, _)
Visit(fields, payload, acc) ==
    IF payload = <<>> \/ ~acc.ok THEN acc
    ELSE LET key == Head(payload)[1]
             val == Head(payload)[2]
             hit == {k \in 1..Len(fields) : key \in fields[k].keys}
         IN  IF hit = {} THEN Visit(fields, Tail(payload), acc)
             ELSE LET f == fields[CHOOSE k \in hit : TRUE]
                  IN  IF f.field \in acc.seen
                      THEN [acc EXCEPT !.ok = FALSE,
                                       !.err = "duplicate field '"
                                                   \o f.field \o "'"]
                      ELSE IF ~TypeFits(f.type, val)
                      THEN [acc EXCEPT !.ok = FALSE,
                                       !.err = "invalid type or variant for '"
                                                   \o f.field \o "'"]
                      ELSE Visit(fields, Tail(payload),
                                 [acc EXCEPT
                                      !.args = SetField(acc.args, f.field, val),
                                      !.seen = acc.seen \cup {f.field}])

\* every field of the argument structs given a serde default: a payload
\* that leaves a field out deserialises
Deserialize_all_optional(op, payload) ==
    Visit(ArgFields(op), payload,
          [ok |-> TRUE, err |-> "", args |-> DefaultArgs, seen |-> {}])

\* Parameters<T>: the payload deserialised into the argument struct; a
\* field left out takes its serde default, a required one is an error
Deserialize(op, payload) ==
    LET fields == ArgFields(op)
        acc == Visit(fields, payload,
                     [ok |-> TRUE, err |-> "", args |-> DefaultArgs,
                      seen |-> {}])
        missing == {k \in 1..Len(fields) :
                        fields[k].required /\ fields[k].field \notin acc.seen}
    IN  IF ~acc.ok THEN acc
        ELSE IF missing # {}
        THEN [acc EXCEPT !.ok = FALSE,
                         !.err = "missing field '"
                                     \o fields[CHOOSE k \in missing :
                                                   \A j \in missing : k <= j].field
                                     \o "'"]
        ELSE acc

\* the outcome of a tool call whose payload does not deserialise
InvalidParams(err) ==
    [kind |-> "failure", code |-> "invalid_params", stage |-> "arguments",
     chain |-> <<err>>,
     text |-> "failed to deserialize parameters: " \o err]

(***************************************************************************)
(* The inputs drawn for the invocations.                                   *)
(***************************************************************************)
\* SdaClient::new(base_url, api_key), from main.rs
Configs ==
    {[base_url |-> "https://api.example.com", api_key |-> "test-key"],
     [base_url |-> "https://api.sudandigitalarchive.com/sda-api",
      api_key |-> "my-api-key"]}

RequestVals == [lang : MetadataLanguage, text : {"maps"}]

\* the typed arguments of each operation, every combination of the values
TypedArgs(op) ==
    CASE op \in {"list_accessions", "list_private_accessions"} ->
            {[DefaultArgs EXCEPT
                  !.page = p, !.per_page = pp, !.lang = lg,
                  !.metadata_subjects = ms,
                  !.metadata_subjects_inclusive_filter = f[1],
                  !.is_private = f[2],
                  !.query_term = t[1], !.url_filter = t[2],
                  !.date_from = t[3], !.date_to = t[4]] :
                p \in PageVals, pp \in PerPageVals, lg \in MetadataLanguage,
                ms \in SeqsUpTo(SubjectIds, MaxSubjects),
                f \in BOOLEAN \X BOOLEAN,
                t \in TermVals \X UrlVals \X DateFromVals \X DateToVals}
      [] op \in {"list_subjects", "list_collections"} ->
            {[DefaultArgs EXCEPT !.page = p, !.per_page = pp, !.lang = lg] :
                p \in PageVals, pp \in PerPageVals, lg \in MetadataLanguage}
      [] op = "list_private_collections" ->
            {[DefaultArgs EXCEPT !.page = p, !.per_page = pp, !.lang = lg,
                                 !.is_public = b] :
                p \in PageVals, pp \in PerPageVals, lg \in MetadataLanguage,
                b \in BOOLEAN}
      [] op \in {"get_subject", "get_collection", "delete_subject"} ->
            {[DefaultArgs EXCEPT !.id = n, !.lang = lg] :
                n \in IdVals, lg \in MetadataLanguage}
      [] op \in {"get_accession", "get_private_accession"} ->
            {[DefaultArgs EXCEPT !.id = n] : n \in IdVals}
      [] op \in {"update_accession", "update_subject", "update_collection"} ->
            {[DefaultArgs EXCEPT !.id = n, !.request = r] :
                n \in IdVals, r \in RequestVals}
      [] OTHER -> {[DefaultArgs EXCEPT !.request = r] : r \in RequestVals}

\* the entries (key, value) the raw payload of a tool call is made of
PayloadEntries(op) ==
    CASE op \in {"list_accessions", "list_private_accessions"} ->
            {<<"page", JInt(2)>>, <<"page", JStr("2")>>,
             <<"perPage", JInt(25)>>, <<"per_page", JInt(25)>>,
             <<"lang", JStr("arabic")>>,
             <<"metadataSubjects", JList(<<5, 3>>)>>,
             <<"metadata_subjects", JList(<<3>>)>>,
             <<"metadataSubjectsInclusiveFilter", JBool(TRUE)>>,
             <<"queryTerm", JStr("nile")>>, <<"urlFilter", JStr("bbc.com")>>,
             <<"dateFrom", JStr("2020-01-01")>>,
             <<"dateTo", JStr("2021-12-31")>>, <<"isPrivate", JBool(TRUE)>>}
      [] op = "list_subjects" ->
            {<<"page", JInt(2)>>, <<"page", JInt(-1)>>,
             <<"perPage", JInt(25)>>, <<"per_page", JInt(25)>>,
             <<"lang", JStr("english")>>, <<"lang", JStr("arabic")>>,
             <<"lang", JStr("none")>>, <<"lang", JInt(1)>>}
      [] op \in {"get_accession", "get_private_accession"} ->
            {<<"id", JInt(7)>>, <<"id", JInt(42)>>, <<"id", JStr("7")>>,
             <<"lang", JStr("english")>>}
      [] op \in {"update_accession", "update_subject"} ->
            {<<"id", JInt(7)>>, <<"id", JInt(42)>>, <<"id", JStr("7")>>,
             <<"request", JObj("english", "maps")>>,
             <<"request", JObj("none", "maps")>>,
             <<"request", JObj("", "maps")>>}
      [] op \in {"create_accession_crawl", "create_subject"} ->
            {<<"id", JInt(7)>>, <<"request", JObj("arabic", "maps")>>,
             <<"request", JObj("none", "maps")>>,
             <<"request", JObj("", "maps")>>}
      [] op = "delete_subject" ->
            {<<"id", JInt(7)>>, <<"id", JInt(42)>>,
             <<"lang", JStr("english")>>, <<"lang", JStr("none")>>,
             <<"lang", JStr("french")>>}
      [] OTHER -> {}

Keys(payload) == {payload[k][1] : k \in 1..Len(payload)}

\* the payloads of at most n of these entries, the keys of a JSON object
\* distinct, in every order of the entries
Payloads(entries, n) ==
    {p \in SeqsUpTo(entries, n) : Cardinality(Keys(p)) = Len(p)}

\* the payloads drawn for each tool, and the typed arguments drawn for each
\* method called directly
ToolPayloads == [op \in Tools |-> Payloads(PayloadEntries(op), MaxKeys)]

DirectArgs == [op \in ClientOnly |-> TypedArgs(op)]

(***************************************************************************)
(* The invocations.                                                        *)
(***************************************************************************)
Idle ==
    [pc |-> "idle", entry |-> "", op |-> "", payload |-> <<>>,
     args |-> DefaultArgs, call |-> NoCall, request |-> NoRequestBuilt,
     sent |-> 0, response |-> NoResponse, outcome |-> NoOutcome]

Slots == DOMAIN inv

\* a tool call arrives: Parameters<T> deserialises the payload, and the
\* handler body runs only when that succeeds
CallToolFrom(i, payloads) ==
    /\ inv[i].pc = "idle"
    /\ \E op \in DOMAIN payloads :
         \E payload \in payloads[op] :
           LET d == Deserialize(op, payload)
           IN  inv' = [inv EXCEPT ![i] =
                          IF d.ok
                          THEN [@ EXCEPT !.pc = "received", !.entry = "tool",
                                         !.op = op, !.payload = payload,
                                         !.args = d.args]
                          ELSE [@ EXCEPT !.pc = "failed", !.entry = "tool",
                                         !.op = op, !.payload = payload,
                                         !.outcome = InvalidParams(d.err)]]
    /\ UNCHANGED cfg

CallTool(i) == CallToolFrom(i, ToolPayloads)

\* a client method no handler wraps is called with typed arguments
ClientCallFrom(i, arguments) ==
    /\ inv[i].pc = "idle"
    /\ \E op \in DOMAIN arguments :
         \E args \in arguments[op] :
           inv' = [inv EXCEPT ![i] =
                      [@ EXCEPT !.pc = "received", !.entry = "client",
                                !.op = op, !.args = args]]
    /\ UNCHANGED cfg

ClientCall(i) == ClientCallFrom(i, DirectArgs)

\* the handler prepares the arguments of the client method
Normalize(i) ==
    /\ inv[i].pc = "received"
    /\ inv' = [inv EXCEPT ![i] =
                  [@ EXCEPT !.pc = "normalized",
                            !.call = ClientCallArgs(inv[i].op, inv[i].args)]]
    /\ UNCHANGED cfg

\* the client keeping the url it has built in base_url, for the next request
Build_keeps_url(i) ==
    /\ inv[i].pc = "normalized"
    /\ inv' = [inv EXCEPT ![i] =
                  [@ EXCEPT !.pc = "built",
                            !.request = BuildRequest(cfg, inv[i].op,
                                                    inv[i].call)]]
    /\ cfg' = [cfg EXCEPT !.base_url =
                   Url(cfg.base_url, inv[i].op, inv[i].call.args.id)]

\* the client method builds the url, the header, the query and the body
Build(i) ==
    /\ inv[i].pc = "normalized"
    /\ inv' = [inv EXCEPT ![i] =
                  [@ EXCEPT !.pc = "built",
                            !.request = BuildRequest(cfg, inv[i].op,
                                                    inv[i].call)]]
    /\ UNCHANGED cfg

\* .send()
Send(i) ==
    /\ inv[i].pc = "built"
    /\ inv' = [inv EXCEPT ![i] =
                  [@ EXCEPT !.pc = "sent", !.sent = @ + 1]]
    /\ UNCHANGED cfg

\* a retry loop around send() for transport errors and error statuses
Retries_on_failure(op, result) == ~result.ok /\ result.stage \in {"send", "status"}

\* whether the method sends the request again after this result; no
\* method of client.rs has a loop or a second .send()
Retries(op, result) == FALSE

\* send().await returns Err
SendFails(i) ==
    /\ inv[i].pc = "sent"
    /\ LET r == inv[i]
           result == SendFailure(r.op, r.call.args.id, r.request.url)
       IN  inv' = [inv EXCEPT ![i] =
                      IF Retries(r.op, result)
                      THEN [@ EXCEPT !.sent = @ + 1]
                      ELSE [@ EXCEPT !.pc = "failed",
                                     !.outcome = Outcome(r.entry, r.op,
                                                         r.call.args.id,
                                                         result)]]
    /\ UNCHANGED cfg

\* send().await returns the response, and the rest of the method and of
\* the handler runs
Respond(i) ==
    /\ inv[i].pc = "sent"
    /\ \E response \in Responses :
         LET r == inv[i]
             result == ClientResult(r.op, r.call.args.id, response)
             out == Outcome(r.entry, r.op, r.call.args.id, result)
         IN  inv' = [inv EXCEPT ![i] =
                        IF Retries(r.op, result)
                        THEN [@ EXCEPT !.sent = @ + 1]
                        ELSE [@ EXCEPT !.pc = IF out.kind = "success"
                                               THEN "succeeded" ELSE "failed",
                                       !.response = response,
                                       !.outcome = out]]
    /\ UNCHANGED cfg

Init ==
    /\ cfg \in Configs
    /\ inv = [i \in {1} |-> Idle]

Next ==
    \/ \E i \in Slots : CallTool(i)
    \/ \E i \in Slots : ClientCall(i)
    \/ \E i \in Slots : Normalize(i)
    \/ \E i \in Slots : Build(i)
    \/ \E i \in Slots : Send(i)
    \/ \E i \in Slots : SendFails(i)
    \/ \E i \in Slots : Respond(i)

Spec == Init /\ [][Next]_vars

(***************************************************************************)
(* The request builders on every combination of typed arguments: the       *)
(* invocation starts with its arguments received, and is normalised and    *)
(* built.                                                                  *)
(***************************************************************************)
InitQuery ==
    /\ cfg \in Configs
    /\ \E op \in QueryOps :
         \E args \in TypedArgs(op) :
           inv = [i \in {1} |->
                     [Idle EXCEPT !.pc = "received",
                                  !.entry = IF op \in Tools THEN "tool"
                                            ELSE "client",
                                  !.op = op, !.args = args]]

NextQuery ==
    \/ \E i \in Slots : Normalize(i)
    \/ \E i \in Slots : Build(i)

SpecQuery == InitQuery /\ [][NextQuery]_vars

(***************************************************************************)
(* Two invocations on the same server, interleaved in any way up to the    *)
(* built request; the payloads carry their entries in every order.         *)
(***************************************************************************)
PairEntries(op) ==
    CASE op = "list_accessions" ->
            {<<"page", JInt(2)>>, <<"perPage", JInt(25)>>,
             <<"lang", JStr("arabic")>>, <<"queryTerm", JStr("nile")>>}
      [] op = "list_subjects" ->
            {<<"lang", JStr("english")>>, <<"page", JInt(2)>>,
             <<"per_page", JInt(25)>>}
      [] OTHER -> {<<"id", JInt(7)>>, <<"request", JObj("english", "maps")>>}

PairPayloads ==
    [op \in {"list_accessions", "list_subjects", "update_accession"} |->
        Payloads(PairEntries(op), MaxKeys)]

PairArgs ==
    [op \in {"list_collections"} |->
        {[DefaultArgs EXCEPT !.page = p, !.lang = lg] :
            p \in {-1, 2}, lg \in {"None", "Arabic"}}]

InitPair ==
    /\ cfg \in Configs
    /\ inv = [i \in {1, 2} |-> Idle]

NextPair ==
    \/ \E i \in Slots : CallToolFrom(i, PairPayloads)
    \/ \E i \in Slots : ClientCallFrom(i, PairArgs)
    \/ \E i \in Slots : Normalize(i)
    \/ \E i \in Slots : Build(i)

SpecPair == InitPair /\ [][NextPair]_vars

(***************************************************************************)
(* Two tool calls on the same server, each run to its outcome, interleaved *)
(* in any way.                                                             *)
(***************************************************************************)
OutcomePayloads ==
    [op \in {"get_accession", "list_subjects"} |->
        IF op = "get_accession"
        THEN Payloads({<<"id", JInt(7)>>, <<"id", JStr("7")>>}, 1)
        ELSE Payloads({<<"lang", JStr("arabic")>>}, 1)]

NextOutcomes ==
    \/ \E i \in Slots : CallToolFrom(i, OutcomePayloads)
    \/ \E i \in Slots : Normalize(i)
    \/ \E i \in Slots : Build(i)
    \/ \E i \in Slots : Send(i)
    \/ \E i \in Slots : SendFails(i)
    \/ \E i \in Slots : Respond(i)

SpecOutcomes == InitPair /\ [][NextOutcomes]_vars

(***************************************************************************)
(* Tool calls by name: the router generated by #[tool_router] holds the    *)
(* methods of impl SdaServer marked #[tool]; a call of any other name      *)
(* reaches no handler.                                                     *)
(***************************************************************************)
\* the names drawn for the calls: every operation the client implements,
\* and a name the program does not know
RequestedNames == Ops \cup {"list_users"}

\* the answer to a call whose name the router does not hold
ToolNotFound ==
    [kind |-> "failure", code |-> "invalid_params", stage |-> "lookup",
     chain |-> <<"tool not found">>, text |-> "tool not found"]

CallUnregistered(i) ==
    /\ inv[i].pc = "idle"
    /\ \E name \in RequestedNames \ Tools :
         inv' = [inv EXCEPT ![i] =
                    [@ EXCEPT !.pc = "failed", !.entry = "tool",
                              !.op = name, !.outcome = ToolNotFound]]
    /\ UNCHANGED cfg

NextDispatch ==
    \/ \E i \in Slots : CallTool(i)
    \/ \E i \in Slots : CallUnregistered(i)
    \/ \E i \in Slots : Normalize(i)
    \/ \E i \in Slots : Build(i)
    \/ \E i \in Slots : Send(i)

SpecDispatch == Init /\ [][NextDispatch]_vars

(***************************************************************************)
(* Properties.                                                             *)
(***************************************************************************)
\* the invocation has built its request
HasRequest(i) == inv[i].pc \in {"built", "sent", "succeeded"}
                     \/ (inv[i].pc = "failed" /\ inv[i].sent > 0)

AccessionListOps == {"list_accessions", "list_private_accessions"}

Count(query, name) == Cardinality({k \in 1..Len(query) : query[k][1] = name})

ValuesOf(query, name) == {query[k][2] : k \in {j \in 1..Len(query) : query[j][1] = name}}

\* the decimal numerals of the pagination values drawn, written out
Decimal(n) ==
    CASE n = -2 -> "-2" [] n = -1 -> "-1" [] n = 0 -> "0" [] n = 2 -> "2"
      [] n = 25 -> "25" [] n = 7 -> "7" [] n = 42 -> "42"
      [] n = 3 -> "3" [] n = 5 -> "5"

\* at most one parameter of that name, present exactly when wanted, and
\* then with that value
Carries(query, name, wanted, value) ==
    IF wanted
    THEN Count(query, name) = 1 /\ ValuesOf(query, name) = {value}
    ELSE Count(query, name) = 0

\* C1: in the query build_accession_query builds, page appears exactly once
\* with the decimal value of args.page unless args.page is -1, and likewise
\* per_page; page=2, per_page=25 with every other field unset gives exactly
\* [("page","2"),("per_page","25")].
C1_Pagination ==
    \A i \in Slots :
        (HasRequest(i) /\ inv[i].op \in AccessionListOps) =>
            LET a == inv[i].args
                q == inv[i].request.query
            IN  /\ Carries(q, "page", a.page # -1, Decimal(a.page))
                /\ Carries(q, "per_page", a.per_page # -1, Decimal(a.per_page))
                /\ (a = [DefaultArgs EXCEPT !.page = 2, !.per_page = 25]) =>
                       q = <<<<"page", "2">>, <<"per_page", "25">>>>
                /\ (a.page = -1 /\ a.per_page = -1) =>
                       \A k \in 1..Len(q) : q[k][1] \notin {"page", "per_page"}

C1_Witness ==
    \E i \in Slots :
        /\ HasRequest(i)
        /\ inv[i].op = "list_accessions"
        /\ inv[i].args = [DefaultArgs EXCEPT !.page = 2, !.per_page = 25]
        /\ inv[i].request.query = <<<<"page", "2">>, <<"per_page", "25">>>>

OptionalLangOps ==
    {"list_accessions", "list_private_accessions", "get_subject",
     "list_collections", "list_private_collections", "get_collection"}

\* C2: on the operations whose language is optional the query has no lang
\* parameter for None, and exactly one, "english" or "arabic", otherwise.
C2_OptionalLang ==
    \A i \in Slots :
        (HasRequest(i) /\ inv[i].op \in OptionalLangOps) =>
            LET lang == inv[i].args.lang
                q == inv[i].request.query
            IN  /\ lang = "None" => Count(q, "lang") = 0
                /\ lang = "English" => Carries(q, "lang", TRUE, "english")
                /\ lang = "Arabic" => Carries(q, "lang", TRUE, "arabic")

C2_Witness ==
    \E i \in Slots :
        /\ HasRequest(i)
        /\ inv[i].op = "get_subject"
        /\ inv[i].args.lang = "Arabic"
        /\ inv[i].request.query = <<<<"lang", "arabic">>>>

\* C3: list subjects always sends exactly one lang parameter: "english" for
\* English, "arabic" for Arabic, and "english" for None.
C3_MandatoryLang ==
    \A i \in Slots :
        (HasRequest(i) /\ inv[i].op = "list_subjects") =>
            LET lang == inv[i].args.lang
                q == inv[i].request.query
            IN  Carries(q, "lang", TRUE,
                        IF lang = "Arabic" THEN "arabic" ELSE "english")

C3_Witness ==
    \E i \in Slots :
        /\ HasRequest(i)
        /\ inv[i].op = "list_subjects"
        /\ inv[i].args.lang = "None"
        /\ Count(inv[i].request.query, "lang") = 1
        /\ ValuesOf(inv[i].request.query, "lang") = {"english"}

\* the place of each name in the declared order of the accession query
AccessionRank(name) ==
    CASE name = "page" -> 1
      [] name = "per_page" -> 2
      [] name = "lang" -> 3
      [] name = "metadata_subjects" -> 4
      [] name = "metadata_subjects_inclusive_filter" -> 5
      [] name = "query_term" -> 6
      [] name = "url_filter" -> 7
      [] name = "date_from" -> 8
      [] name = "date_to" -> 9
      [] name = "is_private" -> 10
      [] OTHER -> 0

\* C4: the names of the accession query appear in the order page, per_page,
\* lang, metadata_subjects, metadata_subjects_inclusive_filter, query_term,
\* url_filter, date_from, date_to, is_private, whatever fields are set.
C4_AccessionOrder ==
    \A i \in Slots :
        (HasRequest(i) /\ inv[i].op \in AccessionListOps) =>
            LET q == inv[i].request.query
            IN  /\ \A k \in 1..Len(q) : AccessionRank(q[k][1]) > 0
                /\ \A k \in 1..(Len(q) - 1) :
                       AccessionRank(q[k][1]) <= AccessionRank(q[k + 1][1])

C4_Witness ==
    \E i \in Slots :
        /\ HasRequest(i)
        /\ inv[i].op = "list_private_accessions"
        /\ {inv[i].request.query[k][1] : k \in 1..Len(inv[i].request.query)}
               = {"page", "per_page", "lang", "metadata_subjects",
                  "metadata_subjects_inclusive_filter", "query_term",
                  "url_filter", "date_from", "date_to", "is_private"}
        /\ Len(inv[i].args.metadata_subjects) = 2

\* the place of each name in an order of the list subjects query
RankIn(order, name) ==
    IF \E k \in 1..Len(order) : order[k] = name
    THEN CHOOSE k \in 1..Len(order) : order[k] = name
    ELSE 0

Ordered(order, q) ==
    /\ \A k \in 1..Len(q) : RankIn(order, q[k][1]) > 0
    /\ \A k \in 1..(Len(q) - 1) :
           RankIn(order, q[k][1]) < RankIn(order, q[k + 1][1])

\* C5 as claimed: the list subjects query is in the order page, per_page,
\* lang.
C5_Claimed ==
    \A i \in Slots :
        (HasRequest(i) /\ inv[i].op = "list_subjects") =>
            Ordered(<<"page", "per_page", "lang">>, inv[i].request.query)

\* C5: the list subjects query is in the order lang, page, per_page: lang
\* comes first, and page precedes per_page.
C5_SubjectsOrder ==
    \A i \in Slots :
        (HasRequest(i) /\ inv[i].op = "list_subjects") =>
            /\ Ordered(<<"lang", "page", "per_page">>, inv[i].request.query)
            /\ inv[i].request.query[1][1] = "lang"

C5_Witness ==
    \E i \in Slots :
        /\ HasRequest(i)
        /\ inv[i].op = "list_subjects"
        /\ inv[i].args.page = 2
        /\ inv[i].args.per_page = 25
        /\ inv[i].request.query
               = <<<<"lang", "english">>, <<"page", "2">>,
                   <<"per_page", "25">>>>

\* the two payloads hold the same entries, in whatever order
SameEntries(p1, p2) == Range(p1) = Range(p2)

\* C6: two invocations of the same operation with the same arguments build
\* the same method, url, query and body, in whatever order the payload
\* carries its entries and whatever was invoked before.
C6_Deterministic ==
    \A i \in Slots : \A j \in Slots :
        (HasRequest(i) /\ HasRequest(j) /\ inv[i].op = inv[j].op
            /\ inv[i].entry = inv[j].entry) =>
            /\ (inv[i].entry = "tool"
                    /\ SameEntries(inv[i].payload, inv[j].payload)) =>
                   inv[i].args = inv[j].args
            /\ inv[i].args = inv[j].args =>
                   inv[i].request = inv[j].request

C6_Witness ==
    \E i \in Slots : \E j \in Slots :
        /\ HasRequest(i) /\ HasRequest(j)
        /\ inv[i].op = "list_accessions" /\ inv[j].op = "list_accessions"
        /\ inv[i].payload # inv[j].payload
        /\ Len(inv[i].payload) = 2
        /\ SameEntries(inv[i].payload, inv[j].payload)
        /\ inv[i].request = inv[j].request
        /\ Len(inv[i].request.query) = 2

Contains(s, sub) ==
    IF sub = "" THEN TRUE
    ELSE \E k \in 1..(Len(s) - Len(sub) + 1) :
             SubSeq(s, k, k + Len(sub) - 1) = sub

EndsWith(s, sub) ==
    /\ Len(s) >= Len(sub)
    /\ (sub = "" \/ SubSeq(s, Len(s) - Len(sub) + 1, Len(s)) = sub)

Terminal(i) == inv[i].pc \in {"succeeded", "failed"}

\* the invocation has been answered by the service
Answered(i) == Terminal(i) /\ inv[i].response # NoResponse

\* the status line the message of each drawn status carries, written out
StatusNumeral(status) ==
    CASE status = 200 -> "200" [] status = 299 -> "299" [] status = 300 -> "300"
      [] status = 404 -> "404" [] status = 500 -> "500"

\* C7: a response whose status is outside 200-299 ends the invocation in
\* Failure; the message contains the numeric status and, when the body that
\* was read is non-empty, " - " and the body text verbatim at its end; when
\* the body is empty the message ends with the status.
C7_ServerError ==
    \A i \in Slots :
        (Answered(i) /\ ~(200 <= inv[i].response.status
                            /\ inv[i].response.status <= 299)) =>
            LET r == inv[i].response
                msg == inv[i].outcome.text
            IN  /\ inv[i].pc = "failed"
                /\ inv[i].outcome.kind = "failure"
                /\ Contains(msg, "HTTP " \o StatusNumeral(r.status))
                /\ (r.readable /\ r.body # "") =>
                       EndsWith(msg, StatusNumeral(r.status) \o " "
                                         \o canonical_reason(r.status)
                                         \o " - " \o r.body)
                /\ (r.readable /\ r.body = "") =>
                       EndsWith(msg, "HTTP " \o StatusNumeral(r.status) \o " "
                                         \o canonical_reason(r.status))

C7_Witness ==
    \E i \in Slots :
        /\ Answered(i)
        /\ inv[i].response = [status |-> 404, body |-> "Not found",
                              readable |-> TRUE]
        /\ inv[i].outcome.kind = "failure"
        /\ Contains(inv[i].outcome.text, "404")
        /\ Contains(inv[i].outcome.text, "Not found")

\* the operations with a structured result, and the sample body that has
\* the shape of each
StructuredOps == Ops \ (TextOps \cup {"delete_subject"})

FittingBody(op) ==
    CASE op \in {"list_accessions", "list_private_accessions", "list_subjects",
                 "list_collections", "list_private_collections"} -> ListBody
      [] op \in {"get_accession", "get_private_accession",
                 "update_accession"} -> AccessionBody
      [] op \in {"update_subject", "get_subject"} -> SubjectBody
      [] OTHER -> CollectionBody

\* C8: on an operation with a structured result, a success status whose
\* body has not the shape of the result ends in Failure at the parse; a
\* Success carries the value of a body of that shape, never an empty object.
C8_NoDefaultResult ==
    \A i \in Slots :
        (Answered(i) /\ inv[i].op \in StructuredOps
            /\ 200 <= inv[i].response.status
            /\ inv[i].response.status <= 299) =>
            /\ (inv[i].response.body # FittingBody(inv[i].op)
                    \/ ~inv[i].response.readable) =>
                   /\ inv[i].pc = "failed"
                   /\ inv[i].outcome.kind = "failure"
                   /\ inv[i].outcome.stage = "parse"
            /\ inv[i].outcome.kind = "success" =>
                   /\ inv[i].response.body = FittingBody(inv[i].op)
                   /\ inv[i].outcome.text \notin {"", "{}", "null"}

C8_Witness ==
    \E i \in Slots :
        /\ Answered(i)
        /\ inv[i].op = "list_accessions"
        /\ inv[i].response = [status |-> 200, body |-> "{}",
                              readable |-> TRUE]
        /\ inv[i].outcome.kind = "failure"
        /\ inv[i].outcome.stage = "parse"

\* the invocation failed at the parse of a success-status body that was read
ParseFailed(i) ==
    /\ Answered(i)
    /\ inv[i].outcome.stage = "parse"
    /\ inv[i].response.readable

Prefixes(body) == {SubSeq(body, 1, n) : n \in 1..Len(body)}

\* C9 as claimed: the message of a parse failure carries the parse failure
\* and a snippet (some leading part) of the body.
C9_Claimed ==
    \A i \in Slots :
        (ParseFailed(i) /\ inv[i].response.body # "") =>
            /\ Contains(inv[i].outcome.text, "error decoding response body")
            /\ \E snippet \in Prefixes(inv[i].response.body) :
                   Contains(inv[i].outcome.text, snippet)

\* C9: the message of a parse failure carries the operation's parse context
\* and the decoder's error after it; the body is not added to it, so a body
\* that is no bare number does not appear in the message.
C9_ParseFailure ==
    \A i \in Slots :
        ParseFailed(i) =>
            LET msg == inv[i].outcome.text
                body == inv[i].response.body
            IN  /\ inv[i].outcome.kind = "failure"
                /\ Contains(msg, "Failed to parse " \o OpPhrase(inv[i].op)
                                     \o " response: error decoding response body: ")
                /\ (body # "" /\ JsonOf(body).kind # "integer") =>
                       ~Contains(msg, body)

C9_Witness ==
    \E i \in Slots :
        /\ ParseFailed(i)
        /\ inv[i].op = "get_accession"
        /\ inv[i].response.body = "Not found"
        /\ Contains(inv[i].outcome.text, "expected value at line 1 column 1")
        /\ ~Contains(inv[i].outcome.text, "Not found")

\* the steps of an invocation
Edges ==
    {<<"idle", "received">>, <<"idle", "failed">>,
     <<"received", "normalized">>, <<"normalized", "built">>,
     <<"built", "sent">>, <<"sent", "succeeded">>, <<"sent", "failed">>}

\* C10: an invocation goes received, normalized, built, sent and then
\* succeeded or failed; it sends at most one request, every step taken
\* after the request is sent ends it, nothing leads back to sent, and a
\* finished invocation does not change.
C10_Lifecycle ==
    [][\A i \in Slots :
           /\ inv[i].pc # inv'[i].pc => <<inv[i].pc, inv'[i].pc>> \in Edges
           /\ inv'[i].sent <= 1
           /\ inv'[i].sent = inv[i].sent
                  + (IF inv[i].pc = "built" /\ inv'[i].pc = "sent"
                     THEN 1 ELSE 0)
           /\ (inv[i].pc = "sent" /\ inv'[i] # inv[i]) =>
                  inv'[i].pc \in {"succeeded", "failed"}
           /\ inv[i].pc \in {"succeeded", "failed"} => inv'[i] = inv[i]]_vars

C10_Witness ==
    \E i \in Slots :
        /\ inv[i].pc = "failed"
        /\ inv[i].response.status = 500
        /\ inv[i].sent = 1

\* the keys the payload of each tool has to carry
RequiredKeys(op) ==
    CASE op \in {"get_accession", "get_private_accession"} -> {"id"}
      [] op \in {"update_accession", "update_subject"} -> {"id", "request"}
      [] op \in {"create_accession_crawl", "create_subject"} -> {"request"}
      [] op = "list_subjects" -> {"lang"}
      [] op = "delete_subject" -> {"id", "lang"}
      [] OTHER -> {}

\* the entries drawn whose value has not the type of the field: a string
\* for a number, a number or an unknown word for a language, a request
\* object without its language
Mistyped ==
    {<<"page", JStr("2")>>, <<"id", JStr("7")>>, <<"lang", JInt(1)>>,
     <<"lang", JStr("french")>>, <<"request", JObj("", "maps")>>}

\* the invocation is a tool call whose payload lacks a required key or
\* holds a value of the wrong type under a key of the argument struct
BadPayload(i) ==
    /\ inv[i].entry = "tool"
    /\ \/ ~(RequiredKeys(inv[i].op) \subseteq Keys(inv[i].payload))
       \/ \E k \in 1..Len(inv[i].payload) :
              /\ inv[i].payload[k] \in Mistyped
              /\ \E f \in Range(ArgFields(inv[i].op)) :
                     inv[i].payload[k][1] \in f.keys

\* C11: a tool call whose payload has a type mismatch or lacks a required
\* field is failed with an invalid-parameters error; it builds no request,
\* is never in the sent state and sends nothing.
C11_ValidationFailure ==
    \A i \in Slots :
        BadPayload(i) =>
            /\ inv[i].pc = "failed"
            /\ inv[i].outcome.kind = "failure"
            /\ inv[i].outcome.code = "invalid_params"
            /\ inv[i].request = NoRequestBuilt
            /\ inv[i].response = NoResponse
            /\ inv[i].sent = 0

C11_Witness ==
    \E i \in Slots :
        /\ inv[i].op = "update_accession"
        /\ inv[i].payload = <<<<"id", JInt(42)>>>>
        /\ BadPayload(i)
        /\ inv[i].pc = "failed"
        /\ inv[i].outcome.text
               = "failed to deserialize parameters: missing field 'request'"
        /\ inv[i].sent = 0

StartsWith(s, pre) ==
    Len(s) >= Len(pre) /\ (pre = "" \/ SubSeq(s, 1, Len(pre)) = pre)

\* the invocation is a tool call that ended in failure
ToolFailed(i) == inv[i].pc = "failed" /\ inv[i].entry = "tool"

\* the tools that take an id
IdTools ==
    {"get_accession", "get_private_accession", "update_accession",
     "update_subject", "delete_subject"}

\* the action phrase of a tool call, with the id for the tools that take one
ActionPhrase(op, id) ==
    "Failed to " \o OpPhrase(op)
        \o (IF op \in IdTools THEN " with ID " \o Decimal(id) ELSE "")

\* C12 as claimed: the message of every failure of a tool call, the
\* failures of argument validation included, carries the action phrase of
\* the operation.
C12_Claimed ==
    \A i \in Slots :
        ToolFailed(i) =>
            Contains(inv[i].outcome.text, "Failed to " \o OpPhrase(inv[i].op))

\* C12: the message of every failure of the transport, of a non-success
\* status and of the response parse starts with the action phrase of the
\* operation, with the id for the operations that take one; a failure of
\* argument validation is returned without it.
C12_Wrapped ==
    \A i \in Slots :
        ToolFailed(i) =>
            /\ inv[i].outcome.stage \in {"send", "status", "parse"} =>
                   StartsWith(inv[i].outcome.text,
                              ActionPhrase(inv[i].op, inv[i].args.id) \o ": ")
            /\ inv[i].outcome.stage = "arguments" =>
                   ~Contains(inv[i].outcome.text,
                             "Failed to " \o OpPhrase(inv[i].op))
            /\ inv[i].outcome.stage \in {"send", "status", "parse", "arguments"}

C12_Witness ==
    \E i \in Slots :
        /\ ToolFailed(i)
        /\ inv[i].op = "update_accession"
        /\ inv[i].outcome.stage = "status"
        /\ inv[i].response.status = 500
        /\ StartsWith(inv[i].outcome.text,
                      "Failed to update accession with ID 42: ")

\* the context that follows the action phrase in the message of a failure
\* of each stage
StageMarker(stage) ==
    CASE stage = "send" -> "Failed to send "
      [] stage = "status" -> "Server returned error for "
      [] stage = "parse" -> "Failed to parse "
      [] OTHER -> "failed to deserialize parameters: "

\* C13 as claimed: two failures of different root kinds (validation,
\* transport, non-success status, response parse) are never returned with
\* the same kind.
C13_Claimed ==
    \A i \in Slots : \A j \in Slots :
        (ToolFailed(i) /\ ToolFailed(j)
            /\ inv[i].outcome.stage # inv[j].outcome.stage) =>
            inv[i].outcome.code # inv[j].outcome.code

\* C13: the returned failure tells a validation failure (invalid
\* parameters) from every other failure; the failures of the transport, of
\* a non-success status and of the parse are all returned as internal
\* errors, and differ in the message alone, where the context that follows
\* the action phrase names the stage.
C13_Kinds ==
    \A i \in Slots : \A j \in Slots :
        (ToolFailed(i) /\ ToolFailed(j)) =>
            LET a == inv[i].outcome
                b == inv[j].outcome
            IN  /\ a.code = (IF a.stage = "arguments" THEN "invalid_params"
                             ELSE "internal_error")
                /\ (a.stage # "arguments" /\ b.stage # "arguments") =>
                       a.code = b.code
                /\ a.stage # "arguments" =>
                       StartsWith(a.text,
                                  ActionPhrase(inv[i].op, inv[i].args.id)
                                      \o ": " \o StageMarker(a.stage))
                /\ a.stage # b.stage => a.text # b.text

C13_Witness ==
    \E i \in Slots : \E j \in Slots :
        /\ ToolFailed(i) /\ ToolFailed(j)
        /\ inv[i].outcome.stage = "send"
        /\ inv[j].outcome.stage = "parse"
        /\ inv[i].outcome.code = "internal_error"
        /\ inv[j].outcome.code = "internal_error"
        /\ inv[i].outcome.text # inv[j].outcome.text

\* the invocation has sent its request
RequestSent(i) == inv[i].sent > 0

\* C14: the request sent by any operation carries one header, named
\* x-api-key, whose value is the credential the client was constructed with.
C14_ApiKeyHeader ==
    \A i \in Slots :
        RequestSent(i) =>
            /\ inv[i].request.header[1] = "x-api-key"
            /\ inv[i].request.header[2] = cfg.api_key
            /\ inv[i].request.header[2] \in {"test-key", "my-api-key"}

C14_Witness ==
    \E i \in Slots :
        /\ RequestSent(i)
        /\ inv[i].op = "delete_subject"
        /\ cfg.api_key = "my-api-key"
        /\ inv[i].request.header = <<"x-api-key", "my-api-key">>

\* the invocation is a call of the list accessions tool without arguments
NoArguments(i) ==
    /\ inv[i].pc # "idle"
    /\ inv[i].entry = "tool"
    /\ inv[i].op = "list_accessions"
    /\ inv[i].payload = <<>>

\* the request of the invocation has been built
RequestBuilt(i) == inv[i].pc = "built" \/ inv[i].sent > 0

\* C15: list accessions called without arguments passes validation with
\* every field at its default (page and per_page -1, no language, no
\* subjects, empty strings, false booleans), and the request built for it
\* is a GET to base_url + "/api/v1/accessions" with no query parameter.
C15_DefaultListAccessions ==
    \A i \in Slots :
        NoArguments(i) =>
            /\ inv[i].outcome.stage # "arguments"
            /\ inv[i].args.page = -1 /\ inv[i].args.per_page = -1
            /\ inv[i].args.lang = "None"
            /\ inv[i].args.metadata_subjects = <<>>
            /\ ~inv[i].args.metadata_subjects_inclusive_filter
            /\ ~inv[i].args.is_private
            /\ inv[i].args.query_term = "" /\ inv[i].args.url_filter = ""
            /\ inv[i].args.date_from = "" /\ inv[i].args.date_to = ""
            /\ RequestBuilt(i) =>
                   /\ inv[i].request.method = "GET"
                   /\ inv[i].request.url = cfg.base_url \o "/api/v1/accessions"
                   /\ inv[i].request.query = <<>>
                   /\ inv[i].request.body = ""

C15_Witness ==
    \E i \in Slots :
        /\ NoArguments(i)
        /\ inv[i].pc = "sent"
        /\ inv[i].request.method = "GET"
        /\ inv[i].request.url = "https://api.example.com/api/v1/accessions"
        /\ inv[i].request.query = <<>>

\* C16: delete subject called with an id and a language sends one DELETE
\* to /api/v1/metadata-subjects/{id}; every response of success status,
\* whatever its body and whether or not the body can be read, ends in
\* Success with the fixed confirmation, and every response of another
\* status ends in Failure, whose message is not the confirmation.
C16_DeleteSubject ==
    \A i \in Slots :
        (inv[i].op = "delete_subject" /\ RequestBuilt(i)) =>
            /\ inv[i].request.method = "DELETE"
            /\ inv[i].request.url
                   = cfg.base_url \o "/api/v1/metadata-subjects/"
                         \o Decimal(inv[i].args.id)
            /\ inv[i].sent <= 1
            /\ Answered(i) =>
                   /\ inv[i].sent = 1
                   /\ (200 <= inv[i].response.status
                           /\ inv[i].response.status <= 299) =>
                          /\ inv[i].pc = "succeeded"
                          /\ inv[i].outcome.kind = "success"
                          /\ inv[i].outcome.text = "Subject deleted successfully"
                   /\ ~(200 <= inv[i].response.status
                           /\ inv[i].response.status <= 299) =>
                          /\ inv[i].pc = "failed"
                          /\ inv[i].outcome.kind = "failure"
                          /\ inv[i].outcome.text
                                 # "Subject deleted successfully"

C16_Witness ==
    \E i \in Slots :
        /\ inv[i].op = "delete_subject"
        /\ inv[i].args.id = 7 /\ inv[i].args.lang = "English"
        /\ inv[i].request.method = "DELETE"
        /\ inv[i].response = [status |-> 200, body |-> "Not found",
                              readable |-> TRUE]
        /\ inv[i].pc = "succeeded"
        /\ inv[i].outcome.text = "Subject deleted successfully"

CreationOps == {"create_accession_crawl", "create_subject", "create_collection"}

\* C17: on a creation operation a response of success status whose body
\* has been received ends in Success, and the content is the body text
\* unchanged, whether or not the body is JSON; no body that has been
\* received makes the operation fail at the parse.
C17_CreationText ==
    \A i \in Slots :
        (Answered(i) /\ inv[i].op \in CreationOps) =>
            /\ (200 <= inv[i].response.status
                    /\ inv[i].response.status <= 299
                    /\ inv[i].response.readable) =>
                   /\ inv[i].pc = "succeeded"
                   /\ inv[i].outcome.kind = "success"
                   /\ inv[i].outcome.text = inv[i].response.body
            /\ inv[i].outcome.stage = "parse" => ~inv[i].response.readable

C17_Witness ==
    \E i \in Slots :
        /\ Answered(i)
        /\ inv[i].op = "create_subject"
        /\ inv[i].entry = "tool"
        /\ inv[i].response = [status |-> 200, body |-> "Not found",
                              readable |-> TRUE]
        /\ inv[i].outcome.kind = "success"
        /\ inv[i].outcome.text = "Not found"

\* C19: no request carries the unspecified language: no query parameter has
\* the value "none", and no request body holds it as the value of a field.
C19_NoneNeverSent ==
    \A i \in Slots :
        RequestBuilt(i) =>
            /\ \A k \in 1..Len(inv[i].request.query) :
                   inv[i].request.query[k][2] # "none"
            /\ ~Contains(inv[i].request.body, ":\"none\"")

\* no other name of the query stands for a boolean
BooleanNames == {"metadata_subjects_inclusive_filter", "is_private", "is_public"}

\* C20: in the query of list accessions (and of its private variant),
\* metadata_subjects_inclusive_filter and is_private each appear exactly
\* when the field is true, once and with the value "true"; in the query of
\* list private collections is_public appears exactly once, with "true" or
\* "false" as the argument is; no other query carries a boolean parameter.
C20_BooleanFields ==
    \A i \in Slots :
        HasRequest(i) =>
            LET q == inv[i].request.query
                a == inv[i].args
            IN  /\ inv[i].op \in AccessionListOps =>
                       /\ Carries(q, "metadata_subjects_inclusive_filter",
                                  a.metadata_subjects_inclusive_filter, "true")
                       /\ Carries(q, "is_private", a.is_private, "true")
                       /\ Count(q, "is_public") = 0
                /\ inv[i].op = "list_private_collections" =>
                       /\ Count(q, "is_public") = 1
                       /\ a.is_public => ValuesOf(q, "is_public") = {"true"}
                       /\ ~a.is_public => ValuesOf(q, "is_public") = {"false"}
                /\ inv[i].op \notin
                       AccessionListOps \cup {"list_private_collections"} =>
                       \A name \in BooleanNames : Count(q, name) = 0

C20_Witness ==
    \E i \in Slots :
        /\ HasRequest(i)
        /\ inv[i].op = "list_private_collections"
        /\ ~inv[i].args.is_public
        /\ inv[i].args.page = -1 /\ inv[i].args.lang = "None"
        /\ inv[i].request.query = <<<<"is_public", "false">>>>

\* the places of the query where a parameter of that name stands
Positions(query, name) == {k \in 1..Len(query) : query[k][1] = name}

\* C21: in the query of list accessions the parameters named
\* metadata_subjects are as many as the list is long, stand next to each
\* other, and carry the elements of the list in its order, duplicates
\* included; an empty list gives none.
C21_SubjectList ==
    \A i \in Slots :
        (HasRequest(i) /\ inv[i].op \in AccessionListOps) =>
            LET q == inv[i].request.query
                l == inv[i].args.metadata_subjects
                at == Positions(q, "metadata_subjects")
            IN  /\ Cardinality(at) = Len(l)
                /\ l = <<>> => at = {}
                /\ \A a \in at : \A b \in at :
                       \A k \in a..b : k \in at
                /\ \A a \in at :
                       q[a][2] = Decimal(l[1 + Cardinality({b \in at : b < a})])

C21_Witness ==
    \E i \in Slots :
        /\ HasRequest(i)
        /\ inv[i].op = "list_accessions"
        /\ inv[i].args.metadata_subjects = <<5, 5>>
        /\ inv[i].args.page = 2
        /\ inv[i].args.is_private
        /\ Positions(inv[i].request.query, "metadata_subjects") = {2, 3}
        /\ inv[i].request.query[2] = <<"metadata_subjects", "5">>
        /\ inv[i].request.query[3] = <<"metadata_subjects", "5">>

\* the operations of the external-interface table
InterfaceOps ==
    {"list_accessions", "list_private_accessions", "get_accession",
     "get_private_accession", "update_accession", "create_accession_crawl",
     "list_subjects", "create_subject", "delete_subject", "update_subject",
     "get_subject", "list_collections", "list_private_collections",
     "get_collection", "create_collection", "update_collection"}

\* C22: a call by name of an operation of the external-interface table is
\* never turned down for its name, so that it can go on to its request; a
\* call of any other name fails for its name and sends no request.
C22_DispatchByName ==
    \A i \in Slots :
        inv[i].entry = "tool" =>
            /\ inv[i].op \in InterfaceOps => inv[i].outcome.stage # "lookup"
            /\ inv[i].op \notin InterfaceOps =>
                   /\ inv[i].pc = "failed"
                   /\ inv[i].outcome.stage = "lookup"
                   /\ inv[i].sent = 0
                   /\ inv[i].request = NoRequestBuilt

\* every request built so far in v is addressed below the base url c was
\* constructed with and carries its credential
UsesConfig(v, c) ==
    \A i \in DOMAIN v :
        (v[i].pc = "built" \/ v[i].sent > 0) =>
            /\ StartsWith(v[i].request.url, c.base_url \o "/api/v1/")
            /\ v[i].request.header = <<"x-api-key", c.api_key>>

\* two invocations of v given the same call have the same arguments and
\* request, and given the same answer the same outcome, whatever the other
\* has done meanwhile
SameAsAlone(v) ==
    \A i \in DOMAIN v : \A j \in DOMAIN v :
        (v[i].pc # "idle" /\ v[j].pc # "idle" /\ v[i].op = v[j].op
            /\ v[i].payload = v[j].payload) =>
            /\ v[i].args = v[j].args
            /\ (v[i].pc \notin {"received", "normalized"}
                    /\ v[j].pc \notin {"received", "normalized"}) =>
                   v[i].request = v[j].request
            /\ (v[i].pc \in {"succeeded", "failed"}
                    /\ v[j].pc \in {"succeeded", "failed"}
                    /\ v[i].response = v[j].response
                    /\ v[i].sent = v[j].sent) =>
                   v[i].outcome = v[j].outcome

\* C23: in every interleaving of the invocations the configuration stays as
\* constructed and every request uses it; a step of one invocation changes
\* no other invocation, and invocations given the same call and the same
\* answer end with the same request and outcome.
C23_Isolation ==
    [][/\ cfg' = cfg
       /\ cfg' \in Configs
       /\ UsesConfig(inv', cfg)
       /\ SameAsAlone(inv')
       /\ \A i \in Slots : \A j \in Slots :
              (i # j /\ inv'[i] # inv[i]) => inv'[j] = inv[j]]_vars

C23_Witness ==
    \E i \in Slots : \E j \in Slots :
        /\ i # j
        /\ inv[i].pc = "sent"
        /\ inv[j].pc = "succeeded"
        /\ inv[i].payload = inv[j].payload
        /\ inv[i].request = inv[j].request
        /\ inv[i].request.header[2] = cfg.api_key
        /\ inv[j].sent = 1

\* the number a decimal string of the query stands for
ParseDecimal(str) == CHOOSE n \in -50..50 : to_string(n) = str

\* the value of the first parameter of that name
FirstValue(query, name) ==
    query[CHOOSE k \in Positions(query, name) :
              \A j \in Positions(query, name) : k <= j][2]

\* the normalized set read as an argument set again: a field the query
\* carries has the value carried, a field it does not carry is unset
ArgsOfQuery(query) ==
    LET has(name) == Positions(query, name) # {}
        str(name) == IF has(name) THEN FirstValue(query, name) ELSE ""
        num(name) == IF has(name) THEN ParseDecimal(FirstValue(query, name))
                     ELSE -1
        at == SelectSeq([k \in 1..Len(query) |-> k],
                        LAMBDA k : query[k][1] = "metadata_subjects")
    IN  [DefaultArgs EXCEPT
             !.page = num("page"),
             !.per_page = num("per_page"),
             !.lang = IF str("lang") = "english" THEN "English"
                      ELSE IF str("lang") = "arabic" THEN "Arabic"
                      ELSE "None",
             !.metadata_subjects =
                 [n \in 1..Len(at) |-> ParseDecimal(query[at[n]][2])],
             !.metadata_subjects_inclusive_filter =
                 (str("metadata_subjects_inclusive_filter") = "true"),
             !.query_term = str("query_term"),
             !.url_filter = str("url_filter"),
             !.date_from = str("date_from"),
             !.date_to = str("date_to"),
             !.is_private = (str("is_private") = "true"),
             !.is_public = (str("is_public") = "true")]

\* the query the operation builds when it is given the normalized set as
\* its arguments: the handler's and the client's rules applied once more
NormalizedAgain(op, query) ==
    QueryOf(op, ClientCallArgs(op, ArgsOfQuery(query)))

\* C24: the query an operation has built, given to the operation again as
\* its arguments, is built unchanged; so it is for list subjects with every
\* page and per_page, where the handler turns -1 into an absent value and
\* the client emits the present ones.
C24_Idempotent ==
    \A i \in Slots :
        (HasRequest(i) /\ inv[i].op \in QueryOps) =>
            NormalizedAgain(inv[i].op, inv[i].request.query)
                = inv[i].request.query

C24_Witness ==
    \E i \in Slots :
        /\ HasRequest(i)
        /\ inv[i].op = "list_subjects"
        /\ inv[i].args.page = -1 /\ inv[i].args.per_page = 25
        /\ inv[i].args.lang = "None"
        /\ inv[i].request.query
               = <<<<"lang", "english">>, <<"per_page", "25">>>>
        /\ NormalizedAgain("list_subjects", inv[i].request.query)
               = inv[i].request.query

\* the operations that take page and per_page
PagedOps ==
    {"list_accessions", "list_private_accessions", "list_collections",
     "list_private_collections", "list_subjects"}

\* the payload of a tool call that carries these page and per_page, and the
\* language list subjects requires
PagedPayload(page, per_page) ==
    <<<<"page", JInt(page)>>, <<"perPage", JInt(per_page)>>,
      <<"lang", JStr("english")>>>>

\* C25: in the query of list accessions, list collections, list private
\* collections and list subjects, page is left out exactly when it is -1
\* and is otherwise carried once with its decimal value, 0 and -2
\* included, and likewise per_page; and the payload that carries these
\* values passes the validation of the tool and keeps them.
C25_OnlyMinusOne ==
    \A i \in Slots :
        (HasRequest(i) /\ inv[i].op \in PagedOps) =>
            LET q == inv[i].request.query
                a == inv[i].args
                d == Deserialize(inv[i].op, PagedPayload(a.page, a.per_page))
            IN  /\ Carries(q, "page", a.page # -1, Decimal(a.page))
                /\ Carries(q, "per_page", a.per_page # -1, Decimal(a.per_page))
                /\ inv[i].op \in Tools =>
                       /\ d.ok
                       /\ d.args.page = a.page
                       /\ d.args.per_page = a.per_page

C25_Witness ==
    \E i \in Slots :
        /\ HasRequest(i)
        /\ inv[i].op = "list_private_collections"
        /\ inv[i].args.page = -2 /\ inv[i].args.per_page = 0
        /\ inv[i].args.lang = "None" /\ inv[i].args.is_public
        /\ inv[i].request.query
               = <<<<"page", "-2">>, <<"per_page", "0">>,
                   <<"is_public", "true">>>>

====
